---- MODULE Spec2Model ----
(***************************************************************************)
(* Model of dog_food_advice: backend_functions.py (barcode normalisation,  *)
(* barcode scan, nutrition lookup) and streamline.py (the Streamlit script *)
(* with its submit handler, password gate and interaction log).            *)
(*                                                                         *)
(* Strings whose characters matter (barcodes, recommendation texts) are    *)
(* sequences of one-character strings. Python's None is the value None     *)
(* below, a sequence no barcode or text can equal.                         *)
(***************************************************************************)
EXTENDS Integers, Sequences, FiniteSets, TLC

VARIABLES
    \* --- strip_leading_zeros exercised on its own ---
    barcode_str,        \* the argument of strip_leading_zeros
    stripped_once,      \* strip_leading_zeros(barcode_str), once computed
    stripped_twice,     \* strip_leading_zeros of that result, once computed
    npc,                \* "input" | "once" | "twice"
    \* --- the Streamlit application ---
    secrets,            \* the secret store: is APP_PASSWORD there, and its value
    CORRECT_PASSWORD,   \* streamline.py:10
    pc,                 \* position of the script
    form,               \* widget values at the click of "Get Recommendation"
    image,              \* what the uploaded / captured image turns out to be
    tmp_file,           \* the temporary file of process_image_input
    barcode_to_process, \* streamline.py:120
    lookup,             \* the call of get_nutrition_data of this submission
    nutrition_info,     \* streamline.py:142
    ai,                 \* the call of ai_model.create_response of this submission
    ai_recommendation,  \* streamline.py:143
    logging_call,       \* the call of log_interaction: "none" | "written" | "raised"
    log,                \* records of logs/app_log.log written by log_interaction
    log_at_click,       \* the log as it was when the button was clicked
    shown               \* messages and widgets the submission rendered

normVars == <<barcode_str, stripped_once, stripped_twice, npc>>
appVars == <<secrets, CORRECT_PASSWORD, pc, form, image, tmp_file,
             barcode_to_process, lookup, nutrition_info, ai,
             ai_recommendation, logging_call, log, log_at_click, shown>>
vars == <<normVars, appVars>>

\* ---------------------------------------------------------------- bounds
MaxLen == 3
MaxLog == 2

Alphabet == {"0", "1", "a"}

RECURSIVE StringsOfLen(_)
StringsOfLen(n) ==
    IF n = 0 THEN {<< >>}
    ELSE {<<c>> \o s : c \in Alphabet, s \in StringsOfLen(n - 1)}

Strings == UNION {StringsOfLen(n) : n \in 0..MaxLen}

None == <<"None">>

Truthy(v) == v # None /\ v # << >>

\* ------------------------------------------------- backend_functions.py
\* A plausible slip: stripping a single leading zero instead of all of them.
lstrip_one_zero(s) ==
    IF s # << >> /\ Head(s) = "0" THEN Tail(s) ELSE s

\* str.lstrip('0')
RECURSIVE lstrip_zeros(_)
lstrip_zeros(s) ==
    IF s = << >> THEN << >>
    ELSE IF Head(s) = "0" THEN lstrip_zeros(Tail(s))
    ELSE s

\* A plausible slip: the all-zero special case left out.
strip_without_zero_case(s) == lstrip_zeros(s)

strip_leading_zeros(s) ==
    LET stripped_barcode == lstrip_zeros(s)
    IN  IF s # << >> /\ stripped_barcode = << >> /\ (\E i \in 1..Len(s) : s[i] = "0")
        THEN <<"0">>
        ELSE stripped_barcode


\* What an uploaded or captured image can turn out to be. write: whether
\* getvalue() and tmp_file.write() succeed; content: what PIL and pyzbar make
\* of the file; payloads: the decoded symbols, in pyzbar's order.
SampleBarcodes == {<< >>, <<"0">>, <<"1", "2", "3">>, <<"0", "0", "1", "2", "3">>}

Images ==
    [write : {"ok", "fails"}, content : {"unreadable", "no_symbol", "bad_utf8"},
     payloads : {<< >>}]
    \cup [write : {"ok", "fails"}, content : {"symbols"},
          payloads : {<<b>> : b \in SampleBarcodes} \cup {<<<<"1", "2", "3">>, <<"0">>>>}]

NoImage == [write |-> "ok", content |-> "none", payloads |-> << >>]

\* Image.open and decode run before the try block, so an unreadable image
\* raises out of the function; a payload that is not UTF-8 raises inside it.
scan_barcode_from_image(img) ==
    IF img.content = "unreadable" THEN [raised |-> TRUE, ret |-> None]
    ELSE IF img.content = "symbols" THEN [raised |-> FALSE, ret |-> img.payloads[1]]
    ELSE [raised |-> FALSE, ret |-> None]

\* The answers of the product database to one requests.get.
Statuses == {200, 300, 404, 503}

Bodies ==
    [shape : {"not_json", "json_list"}, status_flag : {0}, product : {"absent"}]
    \cup [shape : {"json_object"}, status_flag : {0, 1},
          product : {"absent", "null", "dict", "empty_dict", "non_dict"}]

Https ==
    {[transport |-> "fails", status |-> 0,
      body |-> [shape |-> "not_json", status_flag |-> 0, product |-> "absent"]]}
    \cup [transport : {"ok"}, status : Statuses, body : Bodies]

NoHttp == [transport |-> "none", status |-> 0,
           body |-> [shape |-> "not_json", status_flag |-> 0, product |-> "absent"]]

\* A plausible slip: the raw barcode interpolated into the URL.
api_url_raw(barcode_to_find) == barcode_to_find

\* The {stiped_barcode} part of api_url.
api_url(barcode_to_find) == strip_leading_zeros(barcode_to_find)

\* A plausible slip: raise_for_status() left out.
raise_for_status_never(status) == FALSE

\* Response.raise_for_status: HTTPError for 4xx and 5xx.
raise_for_status(status) == 400 <= status /\ status < 600

\* A plausible slip: the status flag of the body not looked at.
product_found_ignoring_flag(body) == body.product # "absent"

\* data.get('status') == 1 and 'product' in data
product_found(body) == body.status_flag = 1 /\ body.product # "absent"

\* The value of data['product'], by shape; JSON null is None.
product_value(body) == IF body.product = "null" THEN "None" ELSE body.product

\* ret: "None", or the shape of the product payload returned.
\* raised: an exception left the function. gets: calls of requests.get.
get_nutrition_data(barcode_to_find, http) ==
    LET url == api_url(barcode_to_find)
        out(ret, raised) == [called |-> TRUE, http |-> http, url |-> url,
                             gets |-> 1, raised |-> raised, ret |-> ret]
    IN  IF http.transport = "fails" THEN out("None", FALSE)
        ELSE IF raise_for_status(http.status) THEN out("None", FALSE)
        ELSE IF http.body.shape = "not_json" THEN out("None", FALSE)
        ELSE IF http.body.shape = "json_list" THEN out("None", TRUE)
        ELSE IF product_found(http.body) THEN out(product_value(http.body), FALSE)
        ELSE out("None", FALSE)

NoLookup == [called |-> FALSE, http |-> NoHttp, url |-> None,
             gets |-> 0, raised |-> FALSE, ret |-> "None"]

\* ---------------------------------------------------------- streamline.py
\* What ai_model.create_response does: raise, or return a text.
Texts == {<< >>, <<"a">>, <<"a", "\n", "b">>}

AiOutcomes == [raises : {TRUE}, text : {None}] \cup [raises : {FALSE}, text : Texts]

NoAi == [called |-> FALSE, raises |-> FALSE, text |-> None]

\* recommendation.replace(os.linesep, ' ')
RECURSIVE flatten(_)
flatten(text) ==
    IF text = << >> THEN << >>
    ELSE <<IF Head(text) = "\n" THEN " " ELSE Head(text)>> \o flatten(Tail(text))

\* The record log_interaction hands to logging.info.
log_message(barcode, nutrition_data, recommendation) ==
    [barcode |-> barcode, nutrition_data |-> nutrition_data,
     recommendation |-> flatten(recommendation)]

\* logging.FileHandler(LOG_FILE) appends.
log_interaction(file, message) == Append(file, message)

\* A plausible slip: logging whenever the model call returned, whatever the text.
should_log_any_text(recommendation) == recommendation # None

\* if ai_recommendation:
should_log(recommendation) == Truthy(recommendation)

\* A plausible slip: any entered password accepted.
password_gate_any_entered(correct, entered) ==
    IF correct = "" THEN "not_configured"
    ELSE IF entered # "" THEN "granted"
    ELSE "blank"

\* The branch of the password check taken.
password_gate(correct, entered) ==
    IF correct = "" THEN "not_configured"
    ELSE IF entered = correct THEN "granted"
    ELSE IF entered # "" THEN "incorrect"
    ELSE "blank"

\* The temporary file of process_image_input and what the call returns.
\* temp_image_path is assigned after the write, so a failing write leaves
\* it None and the finally block removes nothing.
process_image_input(img) ==
    IF img.write = "fails"
    THEN [ret |-> None, file |-> [created |-> TRUE, exists |-> TRUE],
          scan_raised |-> FALSE, shown |-> {"error: processing image"}]
    ELSE LET scan == scan_barcode_from_image(img)
             removed == [created |-> TRUE, exists |-> FALSE]
         IN  IF scan.raised
             THEN [ret |-> None, file |-> removed, scan_raised |-> TRUE,
                   shown |-> {"error: processing image"}]
             ELSE IF ~Truthy(scan.ret)
             THEN [ret |-> None, file |-> removed, scan_raised |-> FALSE,
                   shown |-> {"error: no barcode detected"}]
             ELSE [ret |-> scan.ret, file |-> removed, scan_raised |-> FALSE,
                   shown |-> {"success: detected barcode"}]

NoFile == [created |-> FALSE, exists |-> FALSE]

Secrets == [has_APP_PASSWORD : {FALSE}, APP_PASSWORD : {""}]
           \cup [has_APP_PASSWORD : {TRUE}, APP_PASSWORD : {"", "pw"}]

Forms == [source : {"upload", "camera"}, manual_barcode : {<< >>},
          app_password_input : {"", "pw", "bad"}]
         \cup [source : {"manual"}, manual_barcode : SampleBarcodes,
               app_password_input : {"", "pw", "bad"}]

NoForm == [source |-> "manual", manual_barcode |-> << >>, app_password_input |-> ""]

\* ------------------------------------------- strip_leading_zeros on its own
NormIdle ==
    /\ barcode_str = << >>
    /\ stripped_once = None
    /\ stripped_twice = None
    /\ npc = "input"

AppBoot ==
    /\ CORRECT_PASSWORD = ""
    /\ pc = "boot"
    /\ form = NoForm
    /\ image = NoImage
    /\ tmp_file = NoFile
    /\ barcode_to_process = None
    /\ lookup = NoLookup
    /\ nutrition_info = "None"
    /\ ai = NoAi
    /\ ai_recommendation = None
    /\ logging_call = "none"
    /\ log = << >>
    /\ log_at_click = << >>
    /\ shown = {}

InitNorm ==
    /\ barcode_str \in Strings
    /\ stripped_once = None
    /\ stripped_twice = None
    /\ npc = "input"
    /\ secrets = [has_APP_PASSWORD |-> TRUE, APP_PASSWORD |-> "pw"]
    /\ AppBoot

Normalize ==
    /\ npc = "input"
    /\ stripped_once' = strip_leading_zeros(barcode_str)
    /\ npc' = "once"
    /\ UNCHANGED <<barcode_str, stripped_twice, appVars>>

Renormalize ==
    /\ npc = "once"
    /\ stripped_twice' = strip_leading_zeros(stripped_once)
    /\ npc' = "twice"
    /\ UNCHANGED <<barcode_str, stripped_once, appVars>>

NextNorm == Normalize \/ Renormalize

SpecNorm == InitNorm /\ [][NextNorm]_vars

\* -------------------------------------------------------- the application
Init ==
    /\ NormIdle
    /\ secrets \in Secrets
    /\ AppBoot

\* streamline.py:10. st.secrets[...] raises KeyError for a missing key and
\* nothing catches it: the script stops there on every run.
LoadScript ==
    /\ pc = "boot"
    /\ IF secrets.has_APP_PASSWORD
       THEN /\ CORRECT_PASSWORD' = secrets.APP_PASSWORD
            /\ pc' = "idle"
       ELSE /\ CORRECT_PASSWORD' = CORRECT_PASSWORD
            /\ pc' = "crashed"
    /\ UNCHANGED <<normVars, secrets, form, image, tmp_file, barcode_to_process,
                   lookup, nutrition_info, ai, ai_recommendation,
                   logging_call, log, log_at_click, shown>>

\* The user fills the form and clicks "Get Recommendation" (lines 78-119).
ClickSubmit ==
    /\ pc = "idle"
    /\ Len(log) < MaxLog
    /\ \E f \in Forms : form' = f
    /\ image' = NoImage
    /\ tmp_file' = NoFile
    /\ barcode_to_process' = None
    /\ lookup' = NoLookup
    /\ nutrition_info' = "None"
    /\ ai' = NoAi
    /\ ai_recommendation' = None
    /\ logging_call' = "none"
    /\ log_at_click' = log
    /\ shown' = {}
    /\ pc' = "input"
    /\ UNCHANGED <<normVars, secrets, CORRECT_PASSWORD, log>>

\* Lines 120-132: the barcode from the image or from the text field.
ProcessInput ==
    /\ pc = "input"
    /\ \/ /\ form.source \in {"upload", "camera"}
          /\ \E img \in Images :
                LET r == process_image_input(img)
                IN  /\ image' = img
                    /\ tmp_file' = r.file
                    /\ barcode_to_process' = r.ret
                    /\ shown' = r.shown
       \/ /\ form.source = "manual"
          /\ Truthy(form.manual_barcode)
          /\ barcode_to_process' = form.manual_barcode
          /\ shown' = {"success: using manual barcode"}
          /\ UNCHANGED <<image, tmp_file>>
       \/ /\ form.source = "manual"
          /\ ~Truthy(form.manual_barcode)
          /\ shown' = {"warning: please provide a barcode"}
          /\ UNCHANGED <<image, tmp_file, barcode_to_process>>
    /\ pc' = IF Truthy(barcode_to_process') THEN "lookup" ELSE "done"
    /\ UNCHANGED <<normVars, secrets, CORRECT_PASSWORD, form, lookup,
                   nutrition_info, ai, ai_recommendation, logging_call, log,
                   log_at_click>>

\* Lines 142-148: the lookup, inside the handler's own try block.
FetchNutrition ==
    /\ pc = "lookup"
    /\ \E http \in Https :
          LET r == get_nutrition_data(barcode_to_process, http)
          IN  /\ lookup' = r
              /\ nutrition_info' = IF r.raised THEN "None" ELSE r.ret
              /\ shown' = IF r.raised
                          THEN shown \cup {"error: fetching nutrition data"}
                          ELSE shown
    /\ pc' = "display"
    /\ UNCHANGED <<normVars, secrets, CORRECT_PASSWORD, form, image, tmp_file,
                   barcode_to_process, ai, ai_recommendation, logging_call, log,
                   log_at_click>>

\* Lines 150-161 and 186-187. nutrition_info.items() is outside every try
\* block: a truthy payload that is not a mapping raises AttributeError there.
DisplayNutrition ==
    /\ pc = "display"
    /\ \/ /\ nutrition_info = "dict"
          /\ \E table_ok \in BOOLEAN :
                shown' = shown \cup (IF table_ok
                                     THEN {"nutrition table"}
                                     ELSE {"error: could not display table", "nutrition json"})
          /\ pc' = "gate"
       \/ /\ nutrition_info = "non_dict"
          /\ shown' = shown
          /\ pc' = "fault"
       \/ /\ nutrition_info \in {"None", "empty_dict"}
          /\ shown' = shown \cup {"error: could not find nutrition information"}
          /\ pc' = "done"
    /\ UNCHANGED <<normVars, secrets, CORRECT_PASSWORD, form, image, tmp_file,
                   barcode_to_process, lookup, nutrition_info, ai,
                   ai_recommendation, logging_call, log, log_at_click>>

\* Lines 163-166 and 180-183.
PasswordCheck ==
    /\ pc = "gate"
    /\ LET branch == password_gate(CORRECT_PASSWORD, form.app_password_input)
       IN  /\ pc' = IF branch = "granted" THEN "recommend" ELSE "done"
           /\ shown' = CASE branch = "granted" -> shown
                         [] branch = "not_configured" ->
                              shown \cup {"error: password not configured"}
                         [] branch = "incorrect" ->
                              shown \cup {"error: incorrect password"}
                         [] OTHER -> shown \cup {"warning: password required"}
    /\ UNCHANGED <<normVars, secrets, CORRECT_PASSWORD, form, image, tmp_file,
                   barcode_to_process, lookup, nutrition_info, ai,
                   ai_recommendation, logging_call, log, log_at_click>>

\* Lines 167-174.
Recommend ==
    /\ pc = "recommend"
    /\ \E o \in AiOutcomes :
          /\ ai' = [called |-> TRUE, raises |-> o.raises, text |-> o.text]
          /\ ai_recommendation' = o.text
          /\ shown' = IF o.raises
                      THEN shown \cup {"error: generating AI recommendation"}
                      ELSE shown \cup {"AI recommendation"}
    /\ pc' = IF should_log(ai_recommendation') THEN "log" ELSE "done"
    /\ UNCHANGED <<normVars, secrets, CORRECT_PASSWORD, form, image, tmp_file,
                   barcode_to_process, lookup, nutrition_info, logging_call, log,
                   log_at_click>>

\* Lines 175-179.
LogInteraction ==
    /\ pc = "log"
    /\ \E logger_raises \in BOOLEAN :
          IF logger_raises
          THEN /\ log' = log
               /\ logging_call' = "raised"
               /\ shown' = shown \cup {"error: failed to log interaction"}
          ELSE /\ log' = log_interaction(log,
                            log_message(barcode_to_process, nutrition_info,
                                        ai_recommendation))
               /\ logging_call' = "written"
               /\ shown' = shown \cup {"info: interaction logged"}
    /\ pc' = "done"
    /\ UNCHANGED <<normVars, secrets, CORRECT_PASSWORD, form, image, tmp_file,
                   barcode_to_process, lookup, nutrition_info, ai,
                   ai_recommendation, log_at_click>>

\* The script run is over; the page waits for the next interaction.
Finish ==
    /\ pc \in {"done", "fault"}
    /\ pc' = "idle"
    /\ UNCHANGED <<normVars, secrets, CORRECT_PASSWORD, form, image, tmp_file,
                   barcode_to_process, lookup, nutrition_info, ai,
                   ai_recommendation, logging_call, log, log_at_click, shown>>

Next ==
    \/ LoadScript
    \/ ClickSubmit
    \/ ProcessInput
    \/ FetchNutrition
    \/ DisplayNutrition
    \/ PasswordCheck
    \/ Recommend
    \/ LogInteraction
    \/ Finish

Spec == Init /\ [][Next]_vars

\* ------------------------------------------------------------ properties
\* What the upstream said, read off the behaviour of one requests.get.
LookupFailed(http) ==
    \/ http.transport = "fails"
    \/ http.transport = "ok" /\ 400 <= http.status /\ http.status < 600
    \/ http.transport = "ok" /\ http.body.shape = "not_json"

NotFoundUpstream(http) ==
    /\ http.transport = "ok"
    /\ http.status < 400
    /\ http.body.shape = "json_object"
    /\ (http.body.status_flag # 1 \/ http.body.product = "absent")

LoggedNow == Len(log) - Len(log_at_click)

\* C1: strip_leading_zeros(s) is "" for the empty s, "0" for a non-empty s of
\* zeros only, and otherwise s from its first non-zero character on.
C1_MatchesReference ==
    npc # "input" =>
        LET s == barcode_str
            nonzero == {i \in 1..Len(s) : s[i] # "0"}
        IN  stripped_once =
                IF s = << >> THEN << >>
                ELSE IF nonzero = {} THEN <<"0">>
                ELSE LET k == CHOOSE i \in nonzero : \A j \in nonzero : i <= j
                     IN  [i \in 1..(Len(s) - k + 1) |-> s[k + i - 1]]

C1_Witness ==
    /\ npc = "once"
    /\ barcode_str = <<"0", "0", "a">>
    /\ stripped_once = <<"a">>

\* C2: normalising a normalised string changes nothing.
C2_Idempotent ==
    npc = "twice" => stripped_twice = stripped_once

C2_Witness ==
    /\ npc = "twice"
    /\ barcode_str = <<"0", "0", "1">>
    /\ stripped_twice = <<"1">>

\* C3 as stated: a lookup that finds no product upstream returns an outcome
\* different from the one returned for every failed lookup.
C3_NotFoundDiffersFromError ==
    lookup.called /\ NotFoundUpstream(lookup.http) =>
        \A h \in Https :
            LookupFailed(h) =>
                get_nutrition_data(barcode_to_process, h).ret # lookup.ret

\* C3 as amended: a lookup that finds no product upstream and a failed lookup
\* (transport failure, 4xx or 5xx status, body that is not JSON) both return
\* None without raising.
C3_NotFoundAndErrorBothNone ==
    lookup.called /\ (NotFoundUpstream(lookup.http) \/ LookupFailed(lookup.http)) =>
        lookup.ret = "None" /\ ~lookup.raised

C3_Witness ==
    /\ lookup.called
    /\ NotFoundUpstream(lookup.http)
    /\ lookup.http.body.product = "dict"
    /\ lookup.ret = "None"

\* C4 as stated: a response whose status is not 2xx makes get_nutrition_data
\* return None without raising, after exactly one GET.
C4_Non2xxIsError ==
    lookup.called /\ lookup.http.transport = "ok"
                  /\ ~(200 <= lookup.http.status /\ lookup.http.status < 300) =>
        lookup.ret = "None" /\ ~lookup.raised /\ lookup.gets = 1

\* C4 as amended: a response whose status is 4xx or 5xx makes
\* get_nutrition_data return None without raising, after exactly one GET.
C4_4xx5xxIsError ==
    lookup.called /\ lookup.http.transport = "ok"
                  /\ 400 <= lookup.http.status /\ lookup.http.status < 600 =>
        lookup.ret = "None" /\ ~lookup.raised /\ lookup.gets = 1

C4_Witness ==
    /\ lookup.called
    /\ lookup.http.status = 404
    /\ lookup.http.body.shape = "json_object"
    /\ lookup.http.body.status_flag = 1
    /\ lookup.http.body.product = "dict"
    /\ lookup.ret = "None"

\* C5: the barcode in the request URL is the normalised barcode, not the raw
\* one: "00123" is looked up as "123".
C5_UrlIsNormalized ==
    lookup.called =>
        /\ lookup.url = strip_leading_zeros(barcode_to_process)
        /\ (barcode_to_process = <<"0", "0", "1", "2", "3">> =>
                lookup.url = <<"1", "2", "3">>)

C5_Witness ==
    /\ lookup.called
    /\ barcode_to_process = <<"0", "0", "1", "2", "3">>
    /\ lookup.url = <<"1", "2", "3">>

\* C6: the model is invoked only with a nutrition record and with the entered
\* password equal to the configured, non-empty one; with a wrong or blank
\* password the model is not invoked and nothing is logged.
C6_PasswordGate ==
    /\ ai.called =>
        /\ nutrition_info = "dict"
        /\ CORRECT_PASSWORD # ""
        /\ form.app_password_input = CORRECT_PASSWORD
    /\ (form.app_password_input = "" \/ form.app_password_input # CORRECT_PASSWORD) =>
        ~ai.called /\ LoggedNow = 0

C6_Witness ==
    /\ ai.called
    /\ form.app_password_input = "pw"
    /\ pc = "done"

\* C7 as stated: without the APP_PASSWORD secret the application still
\* starts, and no submission invokes the model.
C7_StartsWithoutPassword ==
    ~secrets.has_APP_PASSWORD => pc # "crashed" /\ ~ai.called

\* C8 as stated: a submission writes exactly one log entry if the model call
\* returned without raising, whatever the text, and none otherwise.
C8_LoggedIffModelReturned ==
    pc = "done" => (LoggedNow = 1 <=> ai.called /\ ~ai.raises)

\* C8 as amended: a submission writes at most one log entry, and only if the
\* model call returned a non-empty text without raising; it then writes
\* exactly one unless the logging call itself raises; the log only grows at
\* its end.
C8_LoggedIffNonEmptyText ==
    /\ [](/\ LoggedNow \in {0, 1}
          /\ LoggedNow = 1 => ai.called /\ ~ai.raises /\ ai.text # << >>
          /\ pc = "done" /\ ai.called /\ ~ai.raises /\ ai.text # << >>
                /\ logging_call # "raised" => LoggedNow = 1)
    /\ [][\/ log' = log
          \/ Len(log') = Len(log) + 1 /\ SubSeq(log', 1, Len(log)) = log]_vars

C8_Witness ==
    /\ pc = "done"
    /\ ai.called
    /\ ai.text = <<"a", "\n", "b">>
    /\ Len(log) = 2
    /\ log[2].recommendation = <<"a", " ", "b">>

\* C9 as stated: once process_image_input has returned, the temporary file
\* it created is gone.
C9_TempFileRemoved ==
    tmp_file.created => ~tmp_file.exists

\* C10 as stated: no submission ends in an uncaught exception, and a finished
\* submission has shown the user something.
C10_NoUncaughtFault ==
    /\ pc # "fault"
    /\ pc = "done" => shown # {}

====
